---- MODULE Spec2Model ----
(***************************************************************************)
(* Model of src/ublox/src/parser.rs: the fixed-capacity CircularBuffer     *)
(* (push / pop / len / at / iter) and the streaming UBX frame Parser       *)
(* (consume, ParserIter::next, ParserIter::drop).                          *)
(*                                                                         *)
(* Offsets are 0-based as in the Rust source; TLA+ sequences are 1-based,  *)
(* so the byte at Rust index i of a sequence s is s[i + 1].                *)
(***************************************************************************)
EXTENDS Integers, Sequences, FiniteSets, TLC

\* ------------------------------------------------------------------------
\* CircularBuffer state (struct CircularBuffer, parser.rs:10-14)
\* ------------------------------------------------------------------------
VARIABLES
    rbuf,      \* buf: the backing region, a function 0..RingN-1 -> byte
    head,      \* head: usize
    tail,      \* tail: usize
    rpanic,    \* TRUE once an operation panicked (index out of range / assert)
    rret,      \* the value returned by the last ring operation
    rq,        \* history: bytes pushed successfully and not yet popped, in order
    itOn,      \* a CircularBufferIter is alive
    itOffset,  \* CircularBufferIter.offset
    itOut,     \* history: the items the live iterator has yielded so far
    itSnap     \* history: <<rbuf, head, tail>> when the iterator was created

ringVars == <<rbuf, head, tail, rpanic, rret, rq, itOn, itOffset, itOut, itSnap>>

\* ------------------------------------------------------------------------
\* Parser state (struct Parser, parser.rs:169-171; struct ParserIter, 215-218)
\* ------------------------------------------------------------------------
VARIABLES
    buf,       \* Parser.buf: the store of pending bytes
    off,       \* ParserIter.off: the scan cursor of the live handle
    handle,    \* a ParserIter is alive (it borrows the store exclusively)
    ppanic,    \* TRUE once a slice or index of the parser was out of range
    rets,      \* history: what each next() call on the current handle returned
    loops,     \* history: iterations of the while loop in the last next() call
    outcomes,  \* history: every Some(..) returned so far, with its stream position
    fed,       \* history: all bytes passed to consume() so far, in order
    exhausted, \* history: every released handle had returned None before release
    split,     \* history: the bytes fed so far came in two or more non-empty chunks
    plan,      \* the segments the input stream is built from (fixed at start)
    todo       \* the part of the planned input stream not yet passed to consume()

parserVars == <<buf, off, handle, ppanic, rets, loops, outcomes, fed, exhausted,
                split, plan, todo>>

vars == <<ringVars, parserVars>>

\* Size N of the backing region handed to CircularBuffer::new (the tests use 5).
RingN == 4

\* The bytes pushed into the ring.
RingBytes == {13, 14}

None == [tag |-> "None"]
Some(x) == [tag |-> "Some", val |-> x]
Bool(b) == [tag |-> "Bool", val |-> b]
Panic == [tag |-> "Panic"]

\* The record of a completed call: the operation, its argument and its result.
Call(op, arg, res) == [op |-> op, arg |-> arg, res |-> res]

\* CircularBuffer::new: head = tail = 0 over a zeroed region ([0; 5] in the tests).
RingNew ==
    /\ rbuf = [i \in 0..(RingN - 1) |-> 0]
    /\ head = 0
    /\ tail = 0

\* CircularBuffer::len with the fields passed explicitly.
RingLenOf(h, t) ==
    LET len == RingN + t - h
    IN IF len >= RingN THEN len - RingN ELSE len

\* CircularBuffer::len
RingLen == RingLenOf(head, tail)

\* The backing index CircularBuffer::at reads for a valid idx.
RingAtIndex(idx) ==
    LET i == head + idx
    IN IF i >= RingLen THEN i - RingLen ELSE i

\* CircularBuffer::at: the assert fails (panic) for idx >= len().
RingAt(idx) ==
    IF ~(idx >= 0 /\ idx < RingLen) THEN Panic
    ELSE IF RingAtIndex(idx) \notin DOMAIN rbuf THEN Panic
    ELSE Some(rbuf[RingAtIndex(idx)])

\* The full-test of CircularBuffer::push.
RingFull == (tail + 1) % RingN = head

\* CircularBuffer::push
Push(data) ==
    /\ ~rpanic /\ ~itOn
    /\ IF RingFull
       THEN /\ rret' = Call("push", data, Bool(FALSE))
            /\ UNCHANGED <<rbuf, head, tail, rpanic, rq>>
       ELSE IF tail \notin DOMAIN rbuf
       THEN \* self.buf[self.tail] = data with tail = buf.len(): index out of range
            /\ rpanic' = TRUE
            /\ rret' = Call("push", data, Panic)
            /\ UNCHANGED <<rbuf, head, tail, rq>>
       ELSE /\ rbuf' = [rbuf EXCEPT ![tail] = data]
            /\ tail' = tail + 1
            /\ rret' = Call("push", data, Bool(TRUE))
            /\ rq' = Append(rq, data)
            /\ UNCHANGED <<head, rpanic>>
    /\ UNCHANGED <<itOn, itOffset, itOut, itSnap>>

\* CircularBuffer::pop
Pop ==
    /\ ~rpanic /\ ~itOn
    /\ IF head = tail
       THEN /\ rret' = Call("pop", 0, None)
            /\ UNCHANGED <<rbuf, head, tail, rpanic, rq>>
       ELSE IF head \notin DOMAIN rbuf
       THEN /\ rpanic' = TRUE
            /\ rret' = Call("pop", 0, Panic)
            /\ UNCHANGED <<rbuf, head, tail, rq>>
       ELSE /\ rret' = Call("pop", 0, Some(rbuf[head]))
            /\ head' = head + 1
            /\ rq' = Tail(rq)
            /\ UNCHANGED <<rbuf, tail, rpanic>>
    /\ UNCHANGED <<itOn, itOffset, itOut, itSnap>>

\* A call of CircularBuffer::at(idx) from outside an iteration.
At(idx) ==
    /\ ~rpanic /\ ~itOn
    /\ rret' = Call("at", idx, RingAt(idx))
    /\ rpanic' = (RingAt(idx).tag = "Panic")
    /\ UNCHANGED <<rbuf, head, tail, rq, itOn, itOffset, itOut, itSnap>>

\* CircularBuffer::iter: a CircularBufferIter with offset 0.
Iter ==
    /\ ~rpanic /\ ~itOn
    /\ itOn' = TRUE
    /\ itOffset' = 0
    /\ itOut' = <<>>
    /\ itSnap' = <<rbuf, head, tail>>
    /\ rret' = Call("iter", 0, None)
    /\ UNCHANGED <<rbuf, head, tail, rpanic, rq>>

\* CircularBufferIter::next
IterNext ==
    /\ ~rpanic /\ itOn
    /\ IF itOffset < RingLen
       THEN /\ rret' = Call("iter.next", itOffset, RingAt(itOffset))
            /\ rpanic' = (RingAt(itOffset).tag = "Panic")
            /\ itOffset' = itOffset + 1
            /\ itOut' = IF RingAt(itOffset).tag = "Some"
                        THEN Append(itOut, RingAt(itOffset).val) ELSE itOut
            /\ UNCHANGED itOn
       ELSE \* None: the iteration has ended; the iterator is dropped
            /\ rret' = Call("iter.next", itOffset, None)
            /\ itOn' = FALSE
            /\ UNCHANGED <<rpanic, itOffset, itOut>>
    /\ UNCHANGED <<rbuf, head, tail, rq, itSnap>>

\* ------------------------------------------------------------------------
\* Bounds of the explored inputs
\* ------------------------------------------------------------------------

\* Total bytes fed under Spec.
MaxStream == 9
\* Longest chunk of one consume() call under Spec.
MaxChunk == 2
\* Segments in a planned stream under SpecStream.
MaxSegs == 2
\* next() calls that return None allowed on one handle.
MaxIdleNext == 2

\* ------------------------------------------------------------------------
\* Wire constants and helpers of crate::ubx_packets used by the parser
\* ------------------------------------------------------------------------

\* The two marker bytes opening every frame (0xB5, 0x62).
SYNC_CHAR_1 == 181
SYNC_CHAR_2 == 98

\* The protocol ceiling on a frame's payload length.  The crate's value is
\* at least 1240 (test_max_payload_len); the model scales it down so that
\* frames of every admitted length fit in the explored streams.
MAX_PAYLOAD_LEN == 2

\* u16::from_le_bytes([lo, hi])
U16LE(lo, hi) == lo + 256 * hi

RECURSIVE CkFold(_, _, _, _)
CkFold(s, i, a, b) ==
    IF i > Len(s) THEN <<a, b>>
    ELSE LET a2 == (a + s[i]) % 256
         IN CkFold(s, i + 1, a2, (b + a2) % 256)

\* ubx_checksum: the two 8-bit running sums over the given bytes.
ubx_checksum(s) == CkFold(s, 1, 0, 0)

\* match_packet: the Packet Dispatcher's result for (class, id, payload),
\* opaque to the parser.
match_packet(class_id, msg_id, msg_data) ==
    [tag |-> "Dispatch", class |-> class_id, id |-> msg_id, payload |-> msg_data]

\* ParserError::InvalidChecksum { expect, got }
InvalidChecksum(expect, got) ==
    [tag |-> "InvalidChecksum", expect |-> expect, got |-> got]

\* ------------------------------------------------------------------------
\* Slices and searches (0-based, as in the source)
\* ------------------------------------------------------------------------

\* s[a..b] is in range
SliceOk(s, a, b) == 0 <= a /\ a <= b /\ b <= Len(s)

\* A slice that stops one byte early.
SliceShort(s, a, b) == SubSeq(s, a + 1, b - 1)

\* &s[a..b]
Slice(s, a, b) == SubSeq(s, a + 1, b)

\* &s[a..]
SliceFrom(s, a) == SubSeq(s, a + 1, Len(s))

\* iter().position(|x| *x == b): the index of the first b in s, -1 for None.
Position(s, b) ==
    IF \E i \in 1..Len(s) : s[i] = b
    THEN (CHOOSE i \in 1..Len(s) :
              s[i] = b /\ \A j \in 1..(i - 1) : s[j] # b) - 1
    ELSE -1

\* ------------------------------------------------------------------------
\* Parser::consume
\* ------------------------------------------------------------------------

\* A consume that searches only the new chunk for the marker and so forgets
\* whatever was buffered.
ConsumeForget(b, new_data) ==
    LET p == Position(new_data, SYNC_CHAR_1)
    IN IF p >= 0
       THEN [buf |-> SliceFrom(new_data, p), off |-> 0, panic |-> FALSE]
       ELSE [buf |-> <<>>, off |-> 0, panic |-> FALSE]

\* A consume that appends the chunk instead of clearing the store when no
\* marker is found.
ConsumeKeepNoise(b, new_data) ==
    LET p == Position(b \o new_data, SYNC_CHAR_1)
    IN IF p >= 0
       THEN IF p >= Len(b)
            THEN [buf |-> SliceFrom(new_data, p - Len(b)), off |-> 0,
                  panic |-> FALSE]
            ELSE [buf |-> b \o new_data, off |-> p, panic |-> FALSE]
       ELSE [buf |-> b \o new_data, off |-> 0, panic |-> FALSE]

\* A consume that slices the chunk at the marker's position in the
\* concatenation, without subtracting the store's length first.
ConsumeNoRebase(b, new_data) ==
    LET p == Position(b \o new_data, SYNC_CHAR_1)
    IN IF p >= 0
       THEN IF p >= Len(b)
            THEN [buf   |-> SliceFrom(new_data, p),
                  off   |-> 0,
                  panic |-> ~SliceOk(new_data, p, Len(new_data))]
            ELSE [buf |-> b \o new_data, off |-> p, panic |-> FALSE]
       ELSE [buf |-> <<>>, off |-> 0, panic |-> FALSE]

\* A consume that, when the marker lies in the new chunk, keeps the cursor
\* at the marker's offset in the chunk instead of resetting it to 0.
ConsumeNoReset(b, new_data) ==
    LET p == Position(b \o new_data, SYNC_CHAR_1)
    IN IF p >= 0
       THEN IF p >= Len(b)
            THEN [buf   |-> SliceFrom(new_data, p - Len(b)),
                  off   |-> p - Len(b),
                  panic |-> ~SliceOk(new_data, p - Len(b), Len(new_data))]
            ELSE [buf |-> b \o new_data, off |-> p, panic |-> FALSE]
       ELSE [buf |-> <<>>, off |-> 0, panic |-> FALSE]

\* The store and the cursor of the returned handle, for the store b and the
\* chunk new_data.
Consume(b, new_data) ==
    LET p == Position(b \o new_data, SYNC_CHAR_1)
    IN IF p >= 0
       THEN IF p >= Len(b)
            THEN [buf   |-> SliceFrom(new_data, p - Len(b)),
                  off   |-> 0,
                  panic |-> ~SliceOk(new_data, p - Len(b), Len(new_data))]
            ELSE [buf |-> b \o new_data, off |-> p, panic |-> FALSE]
       ELSE [buf |-> <<>>, off |-> 0, panic |-> FALSE]

\* ------------------------------------------------------------------------
\* ParserIter::next
\* ------------------------------------------------------------------------

\* What one call returns: the cursor afterwards, the returned value, the
\* store offset of the candidate the value is about (-1 if none), the number
\* of loop iterations run and whether a slice or index was out of range.
NextResult(o, res, match, n, panic) ==
    [off |-> o, res |-> res, match |-> match, loops |-> n, panic |-> panic]

RECURSIVE NextLoop(_, _, _)
NextLoop(b, o, n) ==
    IF ~(o < Len(b)) THEN NextResult(o, None, -1, n, FALSE)
    ELSE
    LET data == SliceFrom(b, o)
        pos  == Position(data, SYNC_CHAR_1)
    IN
    IF pos < 0 THEN NextResult(o, None, -1, n + 1, FALSE)
    ELSE
    LET maybe_pack == SliceFrom(data, pos)
    IN
    IF Len(maybe_pack) <= 1 THEN NextResult(o, None, -1, n + 1, FALSE)
    ELSE IF maybe_pack[2] # SYNC_CHAR_2 THEN NextLoop(b, o + pos + 2, n + 1)
    ELSE IF Len(maybe_pack) <= 5 THEN NextResult(o, None, -1, n + 1, FALSE)
    ELSE
    LET pack_len == U16LE(maybe_pack[5], maybe_pack[6])
    IN
    IF pack_len > MAX_PAYLOAD_LEN THEN NextLoop(b, o + pos + 2, n + 1)
    ELSE IF (pack_len + 6 + 2) > Len(maybe_pack)
    THEN NextResult(o, None, -1, n + 1, FALSE)
    ELSE IF ~SliceOk(maybe_pack, 2, 4 + pack_len + 2)
    THEN NextResult(o, Panic, o + pos, n + 1, TRUE)
    ELSE
    LET ck     == ubx_checksum(Slice(maybe_pack, 2, 4 + pack_len + 2))
        expect == <<maybe_pack[6 + pack_len + 1], maybe_pack[6 + pack_len + 2]>>
    IN
    IF ck # expect
    THEN NextResult(o + pos + 2,
                    Some(InvalidChecksum(U16LE(expect[1], expect[2]),
                                         U16LE(ck[1], ck[2]))),
                    o + pos, n + 1, FALSE)
    ELSE NextResult(o + pos + 6 + pack_len + 2,
                    Some(match_packet(maybe_pack[3], maybe_pack[4],
                                      Slice(maybe_pack, 6, 6 + pack_len))),
                    o + pos, n + 1, FALSE)

\* A next() that, when the candidate it stops at needs more data, moves the
\* cursor 2 past that candidate's marker all the same.
IterNextEager(b, o) ==
    LET r   == NextLoop(b, o, 0)
        pos == Position(SliceFrom(b, r.off), SYNC_CHAR_1)
    IN IF r.res = None /\ r.off < Len(b) /\ pos >= 0
       THEN [r EXCEPT !.off = r.off + pos + 2] ELSE r

\* A next() that leaves the cursor on the trailing checksum of the frame it
\* has emitted.
IterNextShort(b, o) ==
    LET r == NextLoop(b, o, 0)
    IN IF r.res.tag = "Some" /\ r.res.val.tag = "Dispatch"
       THEN [r EXCEPT !.off = r.off - 2] ELSE r

\* A next() that reports a checksum mismatch without moving the cursor.
IterNextStuck(b, o) ==
    LET r == NextLoop(b, o, 0)
    IN IF r.res.tag = "Some" /\ r.res.val.tag = "InvalidChecksum"
       THEN [r EXCEPT !.off = o] ELSE r

\* A next() that moves the cursor to the end of the store when it finds it
\* needs more data.
IterNextSkipAll(b, o) ==
    LET r == NextLoop(b, o, 0)
    IN IF r.res = None /\ o < Len(b) THEN [r EXCEPT !.off = Len(b)] ELSE r

\* ParserIter::next on the store b with the cursor o.
IterNextOf(b, o) == NextLoop(b, o, 0)

\* ------------------------------------------------------------------------
\* ParserIter::drop
\* ------------------------------------------------------------------------

\* A release whose guard is off < buf.len(): nothing is drained once the
\* cursor has reached the end of the store.
DrainStrict(b, o) == IF o < Len(b) THEN SliceFrom(b, o) ELSE b

\* The store after the handle with cursor o is released: buf.drain(0..off),
\* guarded by off <= buf.len().
Drain(b, o) == IF o <= Len(b) THEN SliceFrom(b, o) ELSE b

\* ------------------------------------------------------------------------
\* Parser operations as actions
\* ------------------------------------------------------------------------

\* The stream position of the store's first byte: the store is always a
\* suffix of the bytes fed so far.
Base == Len(fed) - Len(buf)

\* parser.consume(chunk): allowed only when no handle borrows the store.
ConsumeChunk(chunk) ==
    /\ ~handle /\ ~ppanic
    /\ LET c == Consume(buf, chunk)
       IN /\ buf' = c.buf
          /\ off' = c.off
          /\ ppanic' = c.panic
    /\ handle' = TRUE
    /\ rets' = <<>>
    /\ loops' = 0
    /\ fed' = fed \o chunk
    /\ split' = (split \/ (fed # <<>> /\ chunk # <<>>))
    /\ UNCHANGED <<outcomes, exhausted, plan>>

\* One call of ParserIter::next on the live handle.
NextCall ==
    /\ handle /\ ~ppanic
    /\ Len(SelectSeq(rets, LAMBDA r : r = None)) < MaxIdleNext
    /\ LET r == IterNextOf(buf, off)
       IN /\ off' = r.off
          /\ rets' = Append(rets, r.res)
          /\ loops' = r.loops
          /\ ppanic' = r.panic
          /\ outcomes' = IF r.res.tag = "Some"
                         THEN Append(outcomes,
                                     [at |-> Base + r.match, out |-> r.res.val])
                         ELSE outcomes
    /\ UNCHANGED <<buf, handle, fed, exhausted, split, plan, todo>>

\* The handle goes out of scope: ParserIter::drop.
Release ==
    /\ handle /\ ~ppanic
    /\ buf' = Drain(buf, off)
    /\ off' = 0
    /\ handle' = FALSE
    /\ exhausted' = (exhausted /\ rets # <<>> /\ rets[Len(rets)] = None)
    /\ UNCHANGED <<ppanic, rets, loops, outcomes, fed, split, plan, todo>>

\* ------------------------------------------------------------------------
\* Inputs
\* ------------------------------------------------------------------------

\* All sequences over S of length at most n.
SeqsUpTo(S, n) == UNION {[1..k -> S] : k \in 0..n}

RECURSIVE Flatten(_)
Flatten(ss) == IF ss = <<>> THEN <<>> ELSE Head(ss) \o Flatten(Tail(ss))

\* The wire layout of a frame:
\* [SYNC1][SYNC2][class][id][length:u16-LE][payload][ck_a][ck_b].
FrameBytes(class_id, msg_id, payload) ==
    LET body == <<class_id, msg_id, Len(payload) % 256, Len(payload) \div 256>>
                \o payload
        ck   == ubx_checksum(body)
    IN <<SYNC_CHAR_1, SYNC_CHAR_2>> \o body \o <<ck[1], ck[2]>>

\* -- arbitrary byte streams (Spec) --
Alphabet == {SYNC_CHAR_1, SYNC_CHAR_2, 0}
Chunks == SeqsUpTo(Alphabet, MaxChunk)

\* consume() of an arbitrary chunk.
ConsumeAny ==
    \E chunk \in Chunks :
        /\ Len(fed) + Len(chunk) <= MaxStream
        /\ ConsumeChunk(chunk)
        /\ UNCHANGED todo

\* -- planned streams (SpecStream, SpecFrame) --
FrameSeg(class_id, msg_id, payload) ==
    [kind |-> "frame", bytes |-> FrameBytes(class_id, msg_id, payload),
     class |-> class_id, id |-> msg_id, payload |-> payload]

\* The frame (c, i, payload) with payload byte k (0-based) changed to v and
\* the trailing checksum of the original.
CorruptSeg(class_id, msg_id, payload, k, v) ==
    LET f == FrameBytes(class_id, msg_id, payload)
    IN [kind |-> "corrupt", bytes |-> [f EXCEPT ![6 + k + 1] = v],
        class |-> class_id, id |-> msg_id, payload |-> payload]

\* The frame (c, i, payload) with its first trailing checksum byte changed
\* to v.
BadSumSeg(class_id, msg_id, payload, v) ==
    LET f == FrameBytes(class_id, msg_id, payload)
    IN [kind |-> "badsum", bytes |-> [f EXCEPT ![6 + Len(payload) + 1] = v],
        class |-> class_id, id |-> msg_id, payload |-> payload]

\* A 6-byte header whose length field is l0 + 256 * l1.
HeaderSeg(class_id, msg_id, l0, l1) ==
    [kind |-> "header",
     bytes |-> <<SYNC_CHAR_1, SYNC_CHAR_2, class_id, msg_id, l0, l1>>,
     class |-> class_id, id |-> msg_id, payload |-> <<>>]

\* Bytes that open no frame.
NoiseSeg(bytes) ==
    [kind |-> "noise", bytes |-> bytes, class |-> 0, id |-> 0, payload |-> <<>>]

\* Every well-formed frame over the chosen class, id and payload bytes.
FrameClasses == {0, 2, SYNC_CHAR_1}
FrameIds == {0, 42, SYNC_CHAR_2}
PayloadBytes == {0, 1, SYNC_CHAR_1, SYNC_CHAR_2}
AllFrames ==
    {FrameSeg(c, i, pl) : c \in FrameClasses, i \in FrameIds,
                          pl \in SeqsUpTo(PayloadBytes, MAX_PAYLOAD_LEN)}

\* The segments streams are assembled from.
StreamFrames ==
    {FrameSeg(0, 0, <<>>), FrameSeg(2, 42, <<0>>),
     FrameSeg(0, 0, <<SYNC_CHAR_1, SYNC_CHAR_2>>)}
StreamCorrupt == {CorruptSeg(2, 42, <<0>>, 0, 1), BadSumSeg(0, 0, <<>>, 1)}
StreamHeaders ==
    {HeaderSeg(0, 0, MAX_PAYLOAD_LEN + 1, 0), HeaderSeg(0, 0, 0, SYNC_CHAR_1),
     HeaderSeg(SYNC_CHAR_1, 0, 0, 1)}
StreamNoise == {NoiseSeg(<<SYNC_CHAR_1>>), NoiseSeg(<<SYNC_CHAR_1, 0>>),
                NoiseSeg(<<0>>)}
StreamSegs == StreamFrames \cup StreamCorrupt \cup StreamHeaders \cup StreamNoise
Plans == UNION {[1..k -> StreamSegs] : k \in 1..MaxSegs}

PlanBytes(pl) == Flatten([k \in 1..Len(pl) |-> pl[k].bytes])

\* consume() of the next n bytes of the planned stream.
ConsumePart ==
    \E n \in 0..Len(todo) :
        /\ ConsumeChunk(SubSeq(todo, 1, n))
        /\ todo' = SubSeq(todo, n + 1, Len(todo))

\* consume() of the whole planned stream in one call.
ConsumeWhole ==
    /\ todo # <<>>
    /\ ConsumeChunk(todo)
    /\ todo' = <<>>

\* ------------------------------------------------------------------------
\* Specifications
\* ------------------------------------------------------------------------

\* Parser::default(): an empty store, no handle.
ParserNew ==
    /\ buf = <<>>
    /\ off = 0
    /\ handle = FALSE
    /\ ppanic = FALSE
    /\ rets = <<>>
    /\ loops = 0
    /\ outcomes = <<>>
    /\ fed = <<>>
    /\ exhausted = TRUE
    /\ split = FALSE

RingIdle ==
    /\ RingNew
    /\ rpanic = FALSE
    /\ rret = Call("new", 0, None)
    /\ rq = <<>>
    /\ itOn = FALSE
    /\ itOffset = 0
    /\ itOut = <<>>
    /\ itSnap = <<>>

\* The parser fed arbitrary chunks over Alphabet.
Init ==
    /\ ParserNew
    /\ plan = <<>>
    /\ todo = <<>>
    /\ RingIdle

Next ==
    \/ ConsumeAny /\ UNCHANGED ringVars
    \/ NextCall /\ UNCHANGED ringVars
    \/ Release /\ UNCHANGED ringVars

Spec == Init /\ [][Next]_vars

\* The parser fed a planned stream, split into chunks in every possible way.
InitStream ==
    /\ ParserNew
    /\ plan \in Plans
    /\ todo = PlanBytes(plan)
    /\ RingIdle

NextStream ==
    \/ ConsumePart /\ UNCHANGED ringVars
    \/ NextCall /\ UNCHANGED ringVars
    \/ Release /\ UNCHANGED ringVars

SpecStream == InitStream /\ [][NextStream]_vars

\* The parser fed one well-formed frame, whole.
InitFrame ==
    /\ ParserNew
    /\ plan \in {<<f>> : f \in AllFrames}
    /\ todo = PlanBytes(plan)
    /\ RingIdle

NextFrame ==
    \/ ConsumeWhole /\ UNCHANGED ringVars
    \/ NextCall /\ UNCHANGED ringVars
    \/ Release /\ UNCHANGED ringVars

SpecFrame == InitFrame /\ [][NextFrame]_vars

\* The ring under any interleaving of its operations.
InitRing ==
    /\ RingIdle
    /\ ParserNew
    /\ plan = <<>>
    /\ todo = <<>>

NextRing ==
    \/ (\E d \in RingBytes : Push(d)) /\ UNCHANGED parserVars
    \/ Pop /\ UNCHANGED parserVars
    \/ (\E i \in 0..RingN : At(i)) /\ UNCHANGED parserVars
    \/ Iter /\ UNCHANGED parserVars
    \/ IterNext /\ UNCHANGED parserVars

SpecRing == InitRing /\ [][NextRing]_vars

\* ------------------------------------------------------------------------
\* Properties of the CircularBuffer
\* ------------------------------------------------------------------------

\* C5: after any interleaving of push and pop, no operation makes an
\* out-of-range access, len() is the number of bytes pushed and not yet
\* popped, and pop() returns the pushed bytes in push order, None exactly
\* when no pushed byte remains.
C5_RingFifo ==
    [][ /\ rret'.op \in {"push", "pop"} => rret'.res # Panic
        /\ RingLenOf(head', tail') = Len(rq')
        /\ rret'.op = "pop" =>
              rret'.res = IF rq = <<>> THEN None ELSE Some(Head(rq))
      ]_vars

\* C6: len() <= N-1 always; push returns false iff len() = N-1, a rejected
\* push changes nothing, and push returns true and adds one to len()
\* whenever len() < N-1.
C6_RingBackpressure ==
    [][ /\ RingLenOf(head', tail') <= RingN - 1
        /\ rret'.op = "push" =>
              /\ (rret'.res = Bool(FALSE)) <=> (RingLen = RingN - 1)
              /\ rret'.res = Bool(FALSE) => UNCHANGED <<rbuf, head, tail>>
              /\ RingLen < RingN - 1 =>
                    /\ rret'.res = Bool(TRUE)
                    /\ RingLenOf(head', tail') = RingLen + 1
      ]_vars

\* C7: iterating the ring yields exactly its current contents in FIFO
\* order, then ends, and leaves head, tail and the stored bytes unchanged.
C7_RingIteration ==
    /\ itOn =>
          /\ Len(itOut) <= Len(rq)
          /\ itOut = SubSeq(rq, 1, Len(itOut))
          /\ <<rbuf, head, tail>> = itSnap
    /\ (rret.op = "iter.next" /\ rret.res = None) =>
          /\ itOut = rq
          /\ <<rbuf, head, tail>> = itSnap

\* C8: at(i) is the byte the (i+1)-th subsequent pop() would return for
\* every i < len(), and at(i) fails for every i >= len().
C8_RingAt ==
    rret.op = "at" =>
        IF rret.arg < Len(rq)
        THEN rret.res = Some(rq[rret.arg + 1])
        ELSE rret.res = Panic

\* ------------------------------------------------------------------------
\* Properties of the Parser
\* ------------------------------------------------------------------------

\* Every handle so far, the live one included, was driven to end of sequence.
AllDrained ==
    /\ exhausted
    /\ handle => (rets # <<>> /\ rets[Len(rets)] = None)

RECURSIVE DrainAll(_, _, _)
\* The outcomes next() yields, called on the store b from the cursor o until
\* it returns no outcome; base is the stream position of the store's start.
DrainAll(b, o, base) ==
    LET r == IterNextOf(b, o)
    IN IF r.res.tag = "Some"
       THEN <<[at |-> base + r.match, out |-> r.res.val]>> \o DrainAll(b, r.off, base)
       ELSE <<>>

\* The outcomes of a fresh parser fed the stream s in a single consume()
\* call and drained.
OneShot(s) ==
    LET c == Consume(<<>>, s)
    IN DrainAll(c.buf, c.off, Len(s) - Len(c.buf))

\* The stream position at which segment k of the plan starts.
SegStart(k) == Len(PlanBytes(SubSeq(plan, 1, k - 1)))

\* An outcome was emitted for the candidate at stream position p.
OutcomeAt(p) == \E j \in 1..Len(outcomes) : outcomes[j].at = p

\* Segment k of the plan, a frame, was emitted as the dispatcher's result.
Decoded(k) ==
    \E j \in 1..Len(outcomes) :
        outcomes[j] = [at  |-> SegStart(k),
                       out |-> match_packet(plan[k].class, plan[k].id,
                                            plan[k].payload)]

\* Segments 1..k of the plan have been passed to consume().
FedThrough(k) == Len(fed) >= SegStart(k + 1)

\* C1: whenever every handle has been drained, the outcomes emitted so far,
\* over the chunks fed so far, are exactly the outcomes of feeding the same
\* bytes to a fresh parser in one consume() call and draining it.
C1_ChunkIndependence == AllDrained => outcomes = OneShot(fed)

\* A stream with two outcomes has been fed in several chunks and drained.
C1_Witness ==
    /\ AllDrained /\ ~handle /\ split
    /\ todo = <<>>
    /\ Len(outcomes) >= 2

\* C2: a marker-byte-1 not followed by marker-byte-2 yields no outcome of its
\* own and does not block a later well-formed frame: once the stream is fed
\* and drained, that frame has been emitted as Decoded.
C2_StrayMarker ==
    (todo = <<>> /\ AllDrained) =>
        \A k \in 1..Len(plan) : \A m \in (k + 1)..Len(plan) :
            (/\ plan[k].kind = "noise"
             /\ plan[k].bytes[1] = SYNC_CHAR_1
             /\ plan[m].kind = "frame")
            => (~OutcomeAt(SegStart(k)) /\ Decoded(m))

\* C3: a frame with one payload byte changed, fed to an empty store, yields
\* exactly one outcome, the ChecksumMismatch with expected and got, and a
\* well-formed frame appended after it is still emitted as Decoded.
C3_SingleByteCorruption ==
    (/\ Len(plan) >= 2
     /\ plan[1].kind = "corrupt"
     /\ plan[2].kind = "frame"
     /\ FedThrough(2)
     /\ AllDrained)
    => LET f  == plan[1].bytes
           n  == Len(f)
           ck == ubx_checksum(Slice(f, 2, n - 2))
       IN /\ \E j \in 1..Len(outcomes) :
                 outcomes[j] = [at  |-> 0,
                                out |-> InvalidChecksum(U16LE(f[n - 1], f[n]),
                                                        U16LE(ck[1], ck[2]))]
          /\ \A j \in 1..Len(outcomes) :
                 outcomes[j].at < n => outcomes[j].at = 0
          /\ Cardinality({j \in 1..Len(outcomes) : outcomes[j].at = 0}) = 1
          /\ Decoded(2)

\* C4: a 6-byte header whose length exceeds MAX_PAYLOAD_LEN emits no outcome,
\* causes no out-of-range access, and a well-formed frame following it is
\* still emitted as Decoded.
C4_OversizedLength ==
    /\ ~ppanic
    /\ (/\ Len(plan) >= 2
        /\ plan[1].kind = "header"
        /\ U16LE(plan[1].bytes[5], plan[1].bytes[6]) > MAX_PAYLOAD_LEN
        /\ plan[2].kind = "frame"
        /\ FedThrough(2)
        /\ AllDrained)
       => /\ \A j \in 1..Len(outcomes) : outcomes[j].at >= 6
          /\ Decoded(2)

\* C9: while no byte fed so far equals marker-byte-1, the store is empty
\* after every consume() call and next() yields no outcome.
C9_PureNoise ==
    (\A i \in 1..Len(fed) : fed[i] # SYNC_CHAR_1) =>
        /\ buf = <<>>
        /\ outcomes = <<>>
        /\ \A j \in 1..Len(rets) : rets[j] = None

\* Noise fed in several chunks, and next() called on the last handle.
C9_Witness ==
    /\ \A i \in 1..Len(fed) : fed[i] # SYNC_CHAR_1
    /\ Len(fed) >= 3 /\ split
    /\ handle /\ rets = <<None>>

\* C10: a well-formed frame fed whole to a parser with an empty store yields
\* exactly one outcome, the dispatcher's result for the frame, then end of
\* sequence; after the handle is released the store is empty.
C10_HappyPath ==
    fed # <<>> =>
        LET d == match_packet(plan[1].class, plan[1].id, plan[1].payload)
        IN /\ fed = plan[1].bytes
           /\ rets # <<>> => rets[1] = Some(d)
           /\ \A j \in 2..Len(rets) : rets[j] = None
           /\ outcomes = IF rets = <<>> THEN <<>> ELSE <<[at |-> 0, out |-> d]>>
           /\ (~handle /\ rets # <<>>) => buf = <<>>
           /\ ~ppanic

\* A frame whose payload holds both marker bytes was decoded, the sequence
\* ended and the handle was released.
C10_Witness ==
    /\ fed # <<>> /\ ~handle
    /\ Len(rets) = 2
    /\ plan[1].payload = <<SYNC_CHAR_1, SYNC_CHAR_2>>
    /\ buf = <<>>

\* ------------------------------------------------------------------------
\* Steps of the parser, recognised from the state before and after
\* ------------------------------------------------------------------------

\* A consume() call: a handle comes to life.
IsConsumeStep == ~handle /\ handle'

\* A next() call on the live handle.
IsNextStep == handle /\ handle' /\ Len(rets') = Len(rets) + 1

\* The release of the live handle.
IsReleaseStep == handle /\ ~handle'

\* The value the last next() call on the current handle returned.
LastRet == rets[Len(rets)]

\* C11: after any consume() calls with arbitrary chunks (empty ones
\* included), any number of next() calls and release at any point, no slice
\* or index of consume(), next() or the release step is out of range, so the
\* parser is never left in a failed state and accepts a further consume().
C11_NeverUnusable == ~ppanic

\* A handle released early, several chunks fed, an outcome emitted, and a
\* further consume() accepted afterwards.
C11_Witness ==
    /\ ~ppanic /\ ~exhausted /\ split
    /\ handle /\ rets = <<>>
    /\ outcomes # <<>>

\* C12: releasing a handle, drained or not, compacts the store exactly to
\* its suffix from the final cursor position; no byte at or after the cursor
\* is lost and the compaction is never skipped.
C12_CompactionOnRelease ==
    [][IsReleaseStep =>
          /\ off <= Len(buf)
          /\ buf' = SubSeq(buf, off + 1, Len(buf))
          /\ fed' = fed /\ outcomes' = outcomes
      ]_vars

\* A handle was released early, right after an outcome, with bytes still
\* behind the cursor.
C12_Witness ==
    /\ ~handle /\ rets # <<>>
    /\ LastRet # None
    /\ buf # <<>>
    /\ Len(buf) < Len(fed)

\* C13: consume(chunk) on the store B, with p the first marker-byte-1 of
\* B ++ chunk: p in the chunk leaves exactly the chunk from the marker on;
\* p in B leaves exactly B ++ chunk; no marker leaves the empty store.  No
\* byte at or after the first marker is dropped.
C13_AppendPolicy ==
    [][IsConsumeStep =>
          LET chunk == SubSeq(fed', Len(fed) + 1, Len(fed'))
              cat   == buf \o chunk
              marks == {i \in 1..Len(cat) : cat[i] = SYNC_CHAR_1}
          IN IF marks = {}
             THEN buf' = <<>>
             ELSE LET p == (CHOOSE i \in marks : \A j \in marks : i <= j) - 1
                  IN /\ p >= Len(buf) =>
                          buf' = SubSeq(chunk, p - Len(buf) + 1, Len(chunk))
                     /\ p < Len(buf) => buf' = cat
                     /\ Len(buf') >= Len(cat) - p
                     /\ SubSeq(buf', Len(buf') - (Len(cat) - p) + 1, Len(buf'))
                          = SubSeq(cat, p + 1, Len(cat))
      ]_vars

\* A consume() found the marker in the new chunk and discarded the noise
\* buffered before it.
C13_Witness ==
    /\ handle /\ rets = <<>> /\ split
    /\ buf # <<>> /\ buf[1] = SYNC_CHAR_1
    /\ Len(buf) < Len(fed)
    /\ fed[Len(fed) - Len(buf)] # SYNC_CHAR_1
    /\ ~exhausted

\* C14 as stated: the handle returned by consume() has cursor offset 0.
C14_CursorReset == (handle /\ rets = <<>>) => off = 0

\* C14, amended: the handle returned by consume() has its cursor at the
\* first marker-byte-1 of the store (0 when the store is empty); bytes in
\* front of the cursor, retained from earlier calls, hold no marker-byte-1.
C14_CursorAtMarker ==
    (handle /\ rets = <<>>) =>
        /\ 0 <= off /\ off <= Len(buf)
        /\ \A i \in 1..off : buf[i] # SYNC_CHAR_1
        /\ off < Len(buf) => buf[off + 1] = SYNC_CHAR_1
        /\ off = Len(buf) => buf = <<>>

\* A consume() returned a handle whose cursor is not 0: the marker lay in
\* the old store behind retained bytes.
C14_Witness == handle /\ rets = <<>> /\ off > 0

\* The 0-based index of the first marker-byte-1 of b at or after o, -1 if
\* there is none.
FirstMarker(b, o) ==
    LET marks == {i \in (o + 1)..Len(b) : b[i] = SYNC_CHAR_1}
    IN IF marks = {} THEN -1
       ELSE (CHOOSE i \in marks : \A j \in marks : i <= j) - 1

\* The candidate at index q of b cannot be decided without more bytes: the
\* second sync byte, the header, or part of an in-range-length frame is
\* still missing.
NeedsData(b, q) ==
    LET avail == Len(b) - q
    IN \/ avail <= 1
       \/ /\ b[q + 2] = SYNC_CHAR_2
          /\ \/ avail <= 5
             \/ /\ U16LE(b[q + 5], b[q + 6]) <= MAX_PAYLOAD_LEN
                /\ avail < 6 + U16LE(b[q + 5], b[q + 6]) + 2

RECURSIVE Prefix(_, _)
Prefix(s, k) == IF k = 0 THEN 0 ELSE Prefix(s, k - 1) + s[k]

\* The sum of the first k prefix sums of s.
RECURSIVE PrefixSums(_, _)
PrefixSums(s, k) == IF k = 0 THEN 0 ELSE PrefixSums(s, k - 1) + Prefix(s, k)

\* The 8-bit Fletcher checksum in closed form: ck_a is the sum of the bytes
\* and ck_b the sum of the running sums, both modulo 256.
RefChecksum(s) == <<Prefix(s, Len(s)) % 256, PrefixSums(s, Len(s)) % 256>>

\* The length declared by the candidate at index q of b.
DeclLen(b, q) == b[q + 5] + 256 * b[q + 6]

\* The candidate at index q of b is complete: both sync bytes, an in-range
\* length and all 6 + length + 2 bytes are in the store.
Complete(b, q) ==
    /\ Len(b) - q >= 6
    /\ b[q + 2] = SYNC_CHAR_2
    /\ DeclLen(b, q) <= MAX_PAYLOAD_LEN
    /\ Len(b) - q >= 6 + DeclLen(b, q) + 2

\* The bytes of the candidate at index q of b at candidate offsets i..j-1.
Span(b, q, i, j) == [k \in 1..(j - i) |-> b[q + i + k]]

\* The checksum of the complete candidate at index q of b matches.
ChecksumOk(b, q) ==
    RefChecksum(Span(b, q, 2, 6 + DeclLen(b, q)))
        = <<b[q + 6 + DeclLen(b, q) + 1], b[q + 6 + DeclLen(b, q) + 2]>>

IsMismatch(o) == o.out.tag = "InvalidChecksum"
IsDispatch(o) == o.out.tag = "Dispatch"
LastOutcome == outcomes[Len(outcomes)]

\* C16: a complete candidate that fails its checksum makes next() emit one
\* ChecksumMismatch and leave the cursor at exactly match + 2; every
\* ChecksumMismatch leaves the cursor there; and over the parser's lifetime
\* the reported mismatches are at strictly increasing stream positions, so
\* none is reported twice.
C16_MismatchOnce ==
    /\ [](\A i, j \in 1..Len(outcomes) :
            (i < j /\ IsMismatch(outcomes[i]) /\ IsMismatch(outcomes[j]))
                => outcomes[i].at < outcomes[j].at)
    /\ [][IsNextStep =>
            LET q == FirstMarker(buf, off)
            IN /\ (q >= 0 /\ Complete(buf, q) /\ ~ChecksumOk(buf, q)) =>
                     /\ Len(outcomes') = Len(outcomes) + 1
                     /\ IsMismatch(outcomes'[Len(outcomes')])
                     /\ outcomes'[Len(outcomes')].at = Base + q
                     /\ rets'[Len(rets')] = Some(outcomes'[Len(outcomes')].out)
                     /\ off' = q + 2
                     /\ buf' = buf
               /\ (Len(outcomes') > Len(outcomes)
                   /\ IsMismatch(outcomes'[Len(outcomes')])) =>
                     /\ Len(outcomes') = Len(outcomes) + 1
                     /\ off' = outcomes'[Len(outcomes')].at - Base + 2
                     /\ buf' = buf
      ]_vars

\* Two checksum mismatches have been reported over a stream fed in several
\* chunks, the second just now.
C16_Witness ==
    /\ split /\ handle
    /\ rets # <<>> /\ LastRet # None
    /\ Len(SelectSeq(outcomes, IsMismatch)) >= 2
    /\ IsMismatch(LastOutcome)

\* The plan consists of well-formed frames only.
AllFramesPlan == \A k \in 1..Len(plan) : plan[k].kind = "frame"

\* C17: if the first marker-byte-1 at or after the cursor begins a complete
\* well-formed frame, next() emits the dispatcher's result for (class =
\* byte 2, id = byte 3, payload = bytes 6..6+length) and leaves the cursor
\* on the first byte after the second checksum byte; a stream of
\* back-to-back frames is emitted frame by frame in stream order.
C17_FrameAcceptance ==
    /\ [][IsNextStep =>
            LET q == FirstMarker(buf, off)
            IN (q >= 0 /\ Complete(buf, q) /\ ChecksumOk(buf, q)) =>
                 LET L == DeclLen(buf, q)
                     d == match_packet(buf[q + 3], buf[q + 4],
                                       Span(buf, q, 6, 6 + L))
                 IN /\ rets'[Len(rets')] = Some(d)
                    /\ outcomes' = Append(outcomes, [at |-> Base + q, out |-> d])
                    /\ off' = q + 6 + L + 2
                    /\ buf' = buf
      ]_vars
    /\ []((AllFramesPlan /\ todo = <<>> /\ AllDrained) =>
            outcomes = [k \in 1..Len(plan) |->
                          [at  |-> SegStart(k),
                           out |-> match_packet(plan[k].class, plan[k].id,
                                                plan[k].payload)]])

\* Two back-to-back frames fed in one chunk have both been emitted through
\* one handle.
C17_Witness ==
    /\ ~split /\ handle /\ todo = <<>>
    /\ Len(plan) = 2 /\ AllFramesPlan
    /\ Len(rets) = 2 /\ LastRet # None
    /\ Len(outcomes) = 2
    /\ IsDispatch(outcomes[1]) /\ IsDispatch(outcomes[2])
    /\ off = Len(buf)

\* Called again and again on the store b from the cursor o, next() returns
\* end of sequence within n calls.
RECURSIVE EndsWithin(_, _, _)
EndsWithin(b, o, n) ==
    /\ n > 0
    /\ LET r == IterNextOf(b, o)
       IN r.res = None \/ EndsWithin(b, r.off, n - 1)

\* The number of silent resynchronizations of the next() call that has just
\* returned res' with the cursor off' after loops' entries of the loop body:
\* every entry but the returning one, and every entry when the loop ended
\* at its condition.
Resyncs(n, res, o, b) ==
    IF n = 0 THEN 0
    ELSE IF res = None /\ o >= Len(b) THEN n
    ELSE n - 1

\* C18: a next() call returns after at most store-length/2 silent
\* resynchronizations, each of which moved the cursor forward by at least 2,
\* and yields at most one outcome; called repeatedly on one handle, next()
\* returns end of sequence within (store length - cursor)/2 + 1 calls.
C18_NextTerminates ==
    /\ [][IsNextStep =>
            LET k    == Resyncs(loops', rets'[Len(rets')], off', buf)
                stop == IF rets'[Len(rets')] = None THEN off'
                        ELSE outcomes'[Len(outcomes')].at - Base
            IN /\ 2 * k <= stop - off
               /\ 2 * k <= Len(buf)
               /\ stop <= off' /\ off' <= Len(buf)
               /\ \/ rets'[Len(rets')] = None /\ outcomes' = outcomes
                  \/ /\ rets'[Len(rets')] # None
                     /\ Len(outcomes') = Len(outcomes) + 1
                     /\ SubSeq(outcomes', 1, Len(outcomes)) = outcomes
                     /\ rets'[Len(rets')] = Some(outcomes'[Len(outcomes')].out)
                     /\ off' >= off + 2
      ]_vars
    /\ [](handle =>
            /\ 2 * Len(SelectSeq(rets, LAMBDA r : r # None)) <= off
            /\ EndsWithin(buf, off, ((Len(buf) - off) \div 2) + 1))

\* After an outcome in an earlier call, a next() call has skipped two false
\* matches and run the loop to the end of the store.
C18_Witness ==
    /\ handle /\ outcomes # <<>>
    /\ rets # <<>> /\ LastRet = None
    /\ loops >= 2
    /\ off = Len(buf) /\ off >= 4

\* C19: every outcome is about a complete candidate of the stream whose
\* checksum was taken over exactly the L + 4 bytes at candidate offsets
\* 2..6+L, as ck_a = sum of the bytes and ck_b = sum of the running sums
\* modulo 256, and compared with the bytes at offsets 6+L and 6+L+1: a
\* decoded frame's trailing bytes equal it, and a mismatch reports expected
\* = trailing ck_a + 256 * trailing ck_b and got = computed ck_a + 256 *
\* computed ck_b, which differ.
C19_ChecksumSpan ==
    \A j \in 1..Len(outcomes) :
        LET p    == outcomes[j].at
            L    == DeclLen(fed, p)
            ck   == RefChecksum(Span(fed, p, 2, 6 + L))
            trail == <<fed[p + 6 + L + 1], fed[p + 6 + L + 2]>>
        IN /\ 0 <= p /\ fed[p + 1] = SYNC_CHAR_1
           /\ Complete(fed, p)
           /\ Len(Span(fed, p, 2, 6 + L)) = L + 4
           /\ IsDispatch(outcomes[j]) =>
                 /\ trail = ck
                 /\ outcomes[j].out.payload = Span(fed, p, 6, 6 + L)
           /\ IsMismatch(outcomes[j]) =>
                 /\ trail # ck
                 /\ outcomes[j].out.expect = trail[1] + 256 * trail[2]
                 /\ outcomes[j].out.got = ck[1] + 256 * ck[2]

\* A mismatch with a non-zero second checksum byte and a frame with a
\* payload have both been reported, over a stream fed in several chunks.
C19_Witness ==
    /\ split
    /\ \E j \in 1..Len(outcomes) :
           /\ IsMismatch(outcomes[j])
           /\ outcomes[j].out.expect >= 256
           /\ outcomes[j].out.got >= 256
    /\ \E j \in 1..Len(outcomes) :
           /\ IsDispatch(outcomes[j])
           /\ outcomes[j].out.payload # <<>>

\* C20: while a handle exists the cursor lies within the store, next() never
\* moves it backwards, and the release finds its guard true and drains no
\* more than the store holds.
C20_CursorInvariant ==
    /\ [](handle => (0 <= off /\ off <= Len(buf)))
    /\ [][(handle /\ handle') => off' >= off]_vars
    /\ [][IsReleaseStep =>
            /\ off <= Len(buf)
            /\ Len(buf') = Len(buf) - off
            /\ ~ppanic']_vars

\* next() has moved the cursor of a handle to the very end of a store that
\* is then released.
C20_Witness ==
    /\ ~handle /\ ~ppanic
    /\ rets # <<>> /\ Len(rets) >= 2
    /\ buf = <<>> /\ fed # <<>>
    /\ fed[Len(fed)] # SYNC_CHAR_1
    /\ outcomes # <<>>
    /\ LastOutcome.at + 8 <= Len(fed)

====
